---- MODULE Spec2Model ----
(***************************************************************************)
(* Model of examples/count_space_savings.rs: the cross-archive duplication *)
(* accounting done by main().  Archives are read while the program runs,   *)
(* so what discovery returns, whether an archive opens, and the entries an *)
(* archive yields are inputs drawn when the program asks for them.         *)
(*                                                                         *)
(* Sizes are u64 in the source; the sums here stay far below 2^64, so the  *)
(* model uses the naturals and does not cover u64 overflow of the totals.  *)
(* Percentages are f64 in the source; the model keeps their integer part.  *)
(***************************************************************************)
EXTENDS Naturals, Sequences, FiniteSets, TLC

\* Bound of the model: the largest number of archives discovery returns.
MaxZips == 2

\* Stored (compressed) sizes an entry can have.
Sizes == {5, 10, 20}

\* Raw entry names, as sequences of path components.  "/" is a leading
\* separator and ".." a parent-directory component.
RawNames == { <<"x">>, <<"/", "x">>, <<"y">>, <<"..", "y">> }

None == <<"none">>

NoErr == [kind |-> "none"]

EmptyFn == << >>

VARIABLES
  pc,              \* position of main()
  zip_paths,       \* Vec<PathToZip> returned by get_zips
  zi,              \* index of the archive the indexing loop is at
  entry,           \* the entry the inner loop is at, or None
  names,           \* in-progress HashSet of the archive being indexed
  map,             \* HashMap<PathToZip, HashSet<PathInsideZip>>
  size_map,        \* HashMap<(PathToZip, PathInsideZip), u64>
  entry_map,       \* HashMap<PathInsideZip, Vec<(PathToZip, u64)>>
  file_bytes,      \* HashMap<&PathToZip, u64>
  file_dup_bytes,  \* HashMap<&PathToZip, u64>
  total_savable,
  total_bytes,
  percent_reduction,
  out,             \* what has been printed, in order
  err              \* how the run failed, or NoErr

vars == << pc, zip_paths, zi, entry, names, map, size_map, entry_map,
           file_bytes, file_dup_bytes, total_savable, total_bytes,
           percent_reduction, out, err >>

----------------------------------------------------------------------------
\* Helpers

\* HashMap::insert: adds the key or overwrites its value.
Insert(m, k, v) == [x \in (DOMAIN m) \cup {k} |-> IF x = k THEN v ELSE m[x]]

\* size_map.get(&key).copied().unwrap_or(0)
GetOr0(m, k) == IF k \in DOMAIN m THEN m[k] ELSE 0

Min2(a, b) == IF a <= b THEN a ELSE b

RECURSIVE SumSeq(_)
SumSeq(s) == IF s = << >> THEN 0 ELSE Head(s) + SumSeq(Tail(s))

\* A loop `for x in set { acc += f(x) }` over a hash set: the sum of f over S.
RECURSIVE SumOver(_, _)
SumOver(S, f) ==
  IF S = {} THEN 0
  ELSE LET x == CHOOSE y \in S : TRUE IN f[x] + SumOver(S \ {x}, f)

\* Entry::sanitized_name of rc-zip: None for a name with a ".." component,
\* otherwise the name without its leading separators.
RECURSIVE TrimLeading(_)
TrimLeading(raw) ==
  IF raw # << >> /\ Head(raw) = "/" THEN TrimLeading(Tail(raw)) ELSE raw

Sanitize(raw) ==
  IF \E k \in DOMAIN raw : raw[k] = ".." THEN None ELSE TrimLeading(raw)

\* Sort without the sort: the Vec is left in the order it was collected in.
SortNone(s) == s

\* slice::sort_unstable on a Vec<u64>: ascending order.
RECURSIVE InsertSorted(_, _)
InsertSorted(s, v) ==
  IF s = << >> THEN << v >>
  ELSE IF v <= Head(s) THEN << v >> \o s
  ELSE << Head(s) >> \o InsertSorted(Tail(s), v)

RECURSIVE Sort(_)
Sort(s) == IF s = << >> THEN << >> ELSE InsertSorted(Sort(Tail(s)), Head(s))

----------------------------------------------------------------------------
Init ==
  /\ pc = "start"
  /\ zip_paths = << >>
  /\ zi = 0
  /\ entry = None
  /\ names = {}
  /\ map = EmptyFn
  /\ size_map = EmptyFn
  /\ entry_map = EmptyFn
  /\ file_bytes = EmptyFn
  /\ file_dup_bytes = EmptyFn
  /\ total_savable = 0
  /\ total_bytes = 0
  /\ percent_reduction = 0
  /\ out = << >>
  /\ err = NoErr

Fail(e) ==
  /\ pc' = "failed"
  /\ err' = e

\* Start without the is_empty() check: an empty list falls through both
\* indexing loops.
StartNoEmptyCheck ==
  /\ pc = "start"
  /\ \/ /\ Fail([kind |-> "DiscoveryFailed"])
        /\ UNCHANGED << zip_paths, zi, out >>
     \/ \E n \in 0..MaxZips :
          /\ zip_paths' = [i \in 1..n |-> i]
          /\ pc' = IF n = 0 THEN "pairs" ELSE "open"
          /\ zi' = IF n = 0 THEN 0 ELSE 1
          /\ out' = Append(out, [kind |-> "found", n |-> n])
          /\ UNCHANGED err
  /\ UNCHANGED << entry, names, map, size_map, entry_map, file_bytes,
                  file_dup_bytes, total_savable, total_bytes,
                  percent_reduction >>

\* Lines 36-40: get_zips, the empty check, "Found n zip files".
Start ==
  /\ pc = "start"
  /\ \/ /\ Fail([kind |-> "DiscoveryFailed"])
        /\ UNCHANGED << zip_paths, zi, out >>
     \/ \E n \in 0..MaxZips :
          /\ zip_paths' = [i \in 1..n |-> i]
          /\ IF n = 0
             THEN /\ Fail([kind |-> "NoArchivesFound"])
                  /\ UNCHANGED << zi, out >>
             ELSE /\ pc' = "open"
                  /\ zi' = 1
                  /\ out' = Append(out, [kind |-> "found", n |-> n])
                  /\ UNCHANGED err
  /\ UNCHANGED << entry, names, map, size_map, entry_map, file_bytes,
                  file_dup_bytes, total_savable, total_bytes,
                  percent_reduction >>

\* The archive the indexing loop is at.
CurZip == zip_paths[zi]

\* Lines 47-51: "Processing ...", open the file, read the central directory,
\* start an empty name set.  Either `?` can end the run.
OpenArchive ==
  /\ pc = "open"
  /\ out' = Append(out, [kind |-> "processing", zip |-> CurZip])
  /\ \/ /\ Fail([kind |-> "OpenFailed", zip |-> CurZip])
        /\ UNCHANGED names
     \/ /\ pc' = "iter"
        /\ names' = {}
        /\ UNCHANGED err
  /\ UNCHANGED << zip_paths, zi, entry, map, size_map, entry_map, file_bytes,
                  file_dup_bytes, total_savable, total_bytes,
                  percent_reduction >>

\* Line 52: archive.entries() yields the next entry of the archive.
NextEntry ==
  /\ pc = "iter"
  /\ \E raw \in RawNames, size \in Sizes :
       entry' = [name |-> raw, compressed_size |-> size]
  /\ pc' = "entry"
  /\ UNCHANGED << zip_paths, zi, names, map, size_map, entry_map, file_bytes,
                  file_dup_bytes, total_savable, total_bytes,
                  percent_reduction, out, err >>

\* Lines 52, 67-68: the entries are exhausted; the name set is stored under
\* the archive and the outer loop moves on.
EndArchive ==
  /\ pc = "iter"
  /\ map' = Insert(map, CurZip, names)
  /\ names' = {}      \* moved into map
  /\ IF zi < Len(zip_paths)
     THEN /\ zi' = zi + 1
          /\ pc' = "open"
     ELSE /\ zi' = zi
          /\ pc' = "pairs"
  /\ UNCHANGED << zip_paths, entry, size_map, entry_map, file_bytes,
                  file_dup_bytes, total_savable, total_bytes,
                  percent_reduction, out, err >>

\* IndexEntry with names.insert(..) not asserted: a repeated name overwrites
\* its size record and indexing goes on.
IndexEntryNoAssert ==
  /\ pc = "entry"
  /\ LET name == Sanitize(entry.name) IN
       IF name = None
       THEN /\ Fail([kind |-> "InvalidEntryName", raw |-> entry.name])
            /\ UNCHANGED << entry, names, size_map >>
       ELSE /\ names' = names \cup {name}
            /\ entry' = None
            /\ size_map' = Insert(size_map, << CurZip, name >>,
                                  entry.compressed_size)
            /\ pc' = "iter"
            /\ UNCHANGED err
  /\ UNCHANGED << zip_paths, zi, map, entry_map, file_bytes,
                  file_dup_bytes, total_savable, total_bytes,
                  percent_reduction, out >>

\* IndexEntry with an entry whose name cannot be sanitized skipped instead
\* of ending the run.
IndexEntrySkipInvalid ==
  /\ pc = "entry"
  /\ LET name == Sanitize(entry.name) IN
       IF name = None
       THEN /\ pc' = "iter"
            /\ entry' = None
            /\ UNCHANGED << names, size_map, err >>
       ELSE IF name \in names
       THEN /\ Fail([kind |-> "DuplicateEntryInArchive", name |-> name,
                     zip |-> CurZip])
            /\ UNCHANGED << entry, names, size_map >>
       ELSE /\ names' = names \cup {name}
            /\ entry' = None
            /\ size_map' = Insert(size_map, << CurZip, name >>,
                                  entry.compressed_size)
            /\ pc' = "iter"
            /\ UNCHANGED err
  /\ UNCHANGED << zip_paths, zi, map, entry_map, file_bytes,
                  file_dup_bytes, total_savable, total_bytes,
                  percent_reduction, out >>

\* IndexEntry with the size recorded under the raw name instead of the
\* sanitized one.
IndexEntryRawKey ==
  /\ pc = "entry"
  /\ LET name == Sanitize(entry.name) IN
       IF name = None
       THEN /\ Fail([kind |-> "InvalidEntryName", raw |-> entry.name])
            /\ UNCHANGED << entry, names, size_map >>
       ELSE IF name \in names
       THEN /\ Fail([kind |-> "DuplicateEntryInArchive", name |-> name,
                     zip |-> CurZip])
            /\ UNCHANGED << entry, names, size_map >>
       ELSE /\ names' = names \cup {name}
            /\ entry' = None
            /\ size_map' = Insert(size_map, << CurZip, entry.name >>,
                                  entry.compressed_size)
            /\ pc' = "iter"
            /\ UNCHANGED err
  /\ UNCHANGED << zip_paths, zi, map, entry_map, file_bytes,
                  file_dup_bytes, total_savable, total_bytes,
                  percent_reduction, out >>

\* Lines 53-65: the body of the inner loop for one entry.
IndexEntry ==
  /\ pc = "entry"
  /\ LET name == Sanitize(entry.name) IN
       IF name = None
       THEN \* ok_or_eyre(...)? : "Entry had evil name"
            /\ Fail([kind |-> "InvalidEntryName", raw |-> entry.name])
            /\ UNCHANGED << entry, names, size_map >>
       ELSE IF name \in names
       THEN \* assert!(names.insert(..)) fails: the process panics
            /\ Fail([kind |-> "DuplicateEntryInArchive", name |-> name,
                     zip |-> CurZip])
            /\ UNCHANGED << entry, names, size_map >>
       ELSE /\ names' = names \cup {name}
            /\ entry' = None   \* the loop variable goes out of scope
            /\ size_map' = Insert(size_map, << CurZip, name >>,
                                  entry.compressed_size)
            /\ pc' = "iter"
            /\ UNCHANGED err
  /\ UNCHANGED << zip_paths, zi, map, entry_map, file_bytes,
                  file_dup_bytes, total_savable, total_bytes,
                  percent_reduction, out >>

----------------------------------------------------------------------------
\* Lines 70-102: the pairwise overlap report.

\* Line 77: set1.intersection(set2)
CommonPaths(p1, p2) == map[p1] \cap map[p2]

\* PairBytes with s1.max(s2) in place of s1.min(s2).
PairBytesMax(p1, p2) ==
  LET common == CommonPaths(p1, p2)
  IN SumOver(common,
             [name \in common |->
                LET s1 == GetOr0(size_map, << p1, name >>)
                    s2 == GetOr0(size_map, << p2, name >>)
                IN IF s1 >= s2 THEN s1 ELSE s2])

\* PairBytes with s1 added in place of s1.min(s2).
PairBytesFirst(p1, p2) ==
  LET common == CommonPaths(p1, p2)
  IN SumOver(common,
             [name \in common |-> GetOr0(size_map, << p1, name >>)])

\* Lines 80-91: pair_bytes, the sum over the common names of s1.min(s2).
PairBytes(p1, p2) ==
  LET common == CommonPaths(p1, p2)
  IN SumOver(common,
             [name \in common |->
                Min2(GetOr0(size_map, << p1, name >>),
                     GetOr0(size_map, << p2, name >>))])

\* Lines 73-100 for one (i, j): the line printed, if any.
PairReport(i, j) ==
  LET p1 == zip_paths[i]
      p2 == zip_paths[j]
      common == Cardinality(CommonPaths(p1, p2))
  IN IF common > 0
     THEN << [kind |-> "pair", p1 |-> p1, p2 |-> p2, common |-> common,
              pair_bytes |-> PairBytes(p1, p2)] >>
     ELSE << >>

\* Lines 71-72: the lines printed for i and j in j..Len(zip_paths).
RECURSIVE PairRow(_, _)
PairRow(i, j) ==
  IF j > Len(zip_paths) THEN << >>
  ELSE PairReport(i, j) \o PairRow(i, j + 1)

RECURSIVE PairRows(_)
PairRows(i) ==
  IF i > Len(zip_paths) THEN << >>
  ELSE PairRow(i, i + 1) \o PairRows(i + 1)

Pairs ==
  /\ pc = "pairs"
  /\ out' = out \o PairRows(1)
  /\ pc' = "entry_map"
  /\ UNCHANGED << zip_paths, zi, entry, names, map, size_map, entry_map,
                  file_bytes, file_dup_bytes, total_savable, total_bytes,
                  percent_reduction, err >>

----------------------------------------------------------------------------
\* Lines 104-111: entry_map.

\* The injective sequences that list the set S: the orders a hash map can
\* hand out the elements of S in.
RECURSIVE Orders(_)
Orders(S) ==
  IF S = {} THEN { << >> }
  ELSE UNION { { << x >> \o o : o \in Orders(S \ {x}) } : x \in S }

\* The (zip_path, size) records size_map holds for one entry path.
Occurrences(sm, path) ==
  { << k[1], sm[k] >> : k \in { q \in DOMAIN sm : q[2] = path } }

\* Every entry_map the loop can build: it pushes one record per key of
\* size_map, in the iteration order of the hash map, so the Vec of an entry
\* path lists its records in any order.
RECURSIVE EntryMapsOver(_, _)
EntryMapsOver(sm, paths) ==
  IF paths = {} THEN { EmptyFn }
  ELSE LET p == CHOOSE q \in paths : TRUE
       IN { Insert(em, p, zips) :
              em \in EntryMapsOver(sm, paths \ {p}),
              zips \in Orders(Occurrences(sm, p)) }

EntryMaps(sm) == EntryMapsOver(sm, { k[2] : k \in DOMAIN sm })

BuildEntryMap ==
  /\ pc = "entry_map"
  /\ entry_map' \in EntryMaps(size_map)
  /\ pc' = "file_stats"
  /\ UNCHANGED << zip_paths, zi, entry, names, map, size_map, file_bytes,
                  file_dup_bytes, total_savable, total_bytes,
                  percent_reduction, out, err >>

----------------------------------------------------------------------------
\* Lines 113-150: per-archive statistics.

\* Lines 117-124: total of one archive.
FileTotal(zip_path) ==
  SumOver(map[zip_path],
          [e \in map[zip_path] |-> GetOr0(size_map, << zip_path, e >>)])

\* FileDup with `zips.len() >= 1` in place of `zips.len() > 1`.
FileDupAtLeastOne(zip_path, em) ==
  SumOver(map[zip_path],
          [e \in map[zip_path] |->
             IF e \in DOMAIN em /\ Len(em[e]) >= 1
             THEN GetOr0(size_map, << zip_path, e >>)
             ELSE 0])

\* Lines 118-129: dup of one archive.
FileDup(zip_path, em) ==
  SumOver(map[zip_path],
          [e \in map[zip_path] |->
             IF e \in DOMAIN em /\ Len(em[e]) > 1
             THEN GetOr0(size_map, << zip_path, e >>)
             ELSE 0])

\* Percent with the operands of the division swapped.
PercentSwapped(n, d) == IF n > 0 THEN (d * 100) \div n ELSE 0

\* Lines 139-143 and 170-174: n / d * 100.0, or 0.0 when d is 0 (integer
\* part of the f64 value).
Percent(n, d) == IF d > 0 THEN (n * 100) \div d ELSE 0

FileStats ==
  /\ pc = "file_stats"
  /\ file_bytes' = [z \in { zip_paths[i] : i \in DOMAIN zip_paths } |->
                      FileTotal(z)]
  /\ file_dup_bytes' = [z \in { zip_paths[i] : i \in DOMAIN zip_paths } |->
                          FileDup(z, entry_map)]
  /\ pc' = "print_stats"
  /\ UNCHANGED << zip_paths, zi, entry, names, map, size_map, entry_map,
                  total_savable, total_bytes, percent_reduction, out, err >>

\* Lines 136-150: one line per archive, in list order.
FileLine(i) ==
  LET zip_path == zip_paths[i]
      total == file_bytes[zip_path]
      dup == file_dup_bytes[zip_path]
  IN [kind |-> "file", zip |-> zip_path, percent |-> Percent(dup, total),
      dup |-> dup]

PrintFileStats ==
  /\ pc = "print_stats"
  /\ out' = out \o [i \in 1..Len(zip_paths) |-> FileLine(i)]
  /\ pc' = "savings"
  /\ UNCHANGED << zip_paths, zi, entry, names, map, size_map, entry_map,
                  file_bytes, file_dup_bytes, total_savable, total_bytes,
                  percent_reduction, err >>

----------------------------------------------------------------------------
\* Lines 152-179: the corpus-wide totals.

\* Line 158: zips.iter().map(|(_, s)| *s).collect()
SizesOf(zips) == [k \in 1..Len(zips) |-> zips[k][2]]

\* SavableOf with the smallest size left out in place of the largest.
SavableOfKeepSmallest(zips) ==
  IF Len(zips) > 1
  THEN LET sizes == Sort(SizesOf(zips))
       IN SumSeq(SubSeq(sizes, 2, Len(sizes)))
  ELSE 0

\* Lines 156-164: what one entry path adds to total_savable.
SavableOf(zips) ==
  IF Len(zips) > 1
  THEN LET sizes == Sort(SizesOf(zips))
       IN SumSeq(SubSeq(sizes, 1, Len(sizes) - 1))
  ELSE 0

\* Lines 153-164
Savable(em) == SumOver(DOMAIN em, [p \in DOMAIN em |-> SavableOf(em[p])])

\* Lines 154, 166-168
TotalBytes(em) ==
  SumOver(DOMAIN em, [p \in DOMAIN em |-> SumSeq(SizesOf(em[p]))])

Savings ==
  /\ pc = "savings"
  /\ total_savable' = Savable(entry_map)
  /\ total_bytes' = TotalBytes(entry_map)
  /\ percent_reduction' = Percent(total_savable', total_bytes')
  /\ out' = Append(out, [kind |-> "total", savable |-> total_savable',
                         percent |-> percent_reduction'])
  /\ pc' = "finish"
  /\ UNCHANGED << zip_paths, zi, entry, names, map, size_map, entry_map,
                  file_bytes, file_dup_bytes, err >>

\* Lines 181-182
Finish ==
  /\ pc = "finish"
  /\ out' = Append(out, [kind |-> "success"])
  /\ pc' = "done"
  /\ UNCHANGED << zip_paths, zi, entry, names, map, size_map, entry_map,
                  file_bytes, file_dup_bytes, total_savable, total_bytes,
                  percent_reduction, err >>

Next ==
  \/ Start
  \/ OpenArchive
  \/ NextEntry
  \/ EndArchive
  \/ IndexEntry
  \/ Pairs
  \/ BuildEntryMap
  \/ FileStats
  \/ PrintFileStats
  \/ Savings
  \/ Finish

Spec == Init /\ [][Next]_vars

----------------------------------------------------------------------------
\* What the properties below are stated in: the archives of the run, the
\* names they hold and the sizes read for them.

Zips == { zip_paths[i] : i \in DOMAIN zip_paths }

AllNames == UNION { map[z] : z \in DOMAIN map }

\* The archives whose name set holds the name n.
Holders(n) == { z \in DOMAIN map : n \in map[z] }

\* The sum of the sizes read for n in the archives of Z.
OccSum(n, Z) == SumOver(Z, [z \in Z |-> size_map[<< z, n >>]])

SmallestOcc(n) ==
  CHOOSE v \in { size_map[<< z, n >>] : z \in Holders(n) } :
    \A z \in Holders(n) : v <= size_map[<< z, n >>]

LargestOcc(n) ==
  CHOOSE v \in { size_map[<< z, n >>] : z \in Holders(n) } :
    \A z \in Holders(n) : v >= size_map[<< z, n >>]

Duplicated == { n \in AllNames : Cardinality(Holders(n)) > 1 }

AllBytes == SumOver(AllNames, [n \in AllNames |-> OccSum(n, Holders(n))])

IsStat(r) == r.kind \in {"pair", "file", "total"}

HasStat == \E k \in DOMAIN out : IsStat(out[k])

PairLines == SelectSeq(out, LAMBDA r : r.kind = "pair")

FileLines == SelectSeq(out, LAMBDA r : r.kind = "file")

Indexed == pc \in {"pairs", "entry_map", "file_stats", "print_stats",
                   "savings", "finish", "done"}

Built == pc \in {"file_stats", "print_stats", "savings", "finish", "done"}

----------------------------------------------------------------------------
----------------------------------------------------------------------------
\* The names two archives share, and the lesser-size sum over them.
Shared(a, b) == { n \in AllNames : n \in map[a] /\ n \in map[b] }

SharedBytes(a, b) ==
  SumOver(Shared(a, b),
          [n \in Shared(a, b) |->
             IF size_map[<< a, n >>] < size_map[<< b, n >>]
             THEN size_map[<< a, n >>] ELSE size_map[<< b, n >>]])

\* C2: once the pair report is printed, every pair i < j of the list that
\* shares a name has exactly one line, with the number of shared names and
\* the sum over them of the lesser size; there are no other pair lines.
C2_PairwiseOverlap ==
  (Indexed /\ pc # "pairs") =>
    LET lines == PairLines
        sharing == { ij \in (DOMAIN zip_paths) \X (DOMAIN zip_paths) :
                       /\ ij[1] < ij[2]
                       /\ Shared(zip_paths[ij[1]], zip_paths[ij[2]]) # {} }
    IN /\ \A ij \in sharing :
            \E k \in DOMAIN lines :
              /\ lines[k].p1 = zip_paths[ij[1]]
              /\ lines[k].p2 = zip_paths[ij[2]]
              /\ lines[k].common =
                   Cardinality(Shared(zip_paths[ij[1]], zip_paths[ij[2]]))
              /\ lines[k].pair_bytes =
                   SharedBytes(zip_paths[ij[1]], zip_paths[ij[2]])
       /\ Len(lines) = Cardinality(sharing)
       /\ \A k \in DOMAIN lines : lines[k].common > 0

\* The pair Z1 = {x:10, y:20}, Z2 = {x:10, y:5} reported as (2, 15).
C2_Witness ==
  /\ pc = "done"
  /\ size_map = ( << 1, <<"x">> >> :> 10 @@ << 1, <<"y">> >> :> 20 @@
                  << 2, <<"x">> >> :> 10 @@ << 2, <<"y">> >> :> 5 )
  /\ PairLines = << [kind |-> "pair", p1 |-> 1, p2 |-> 2, common |-> 2,
                     pair_bytes |-> 15] >>

----------------------------------------------------------------------------
\* C3: after a successful run the total of every archive is the sum of the
\* sizes of its entries, and its dup the sum of the sizes of those of its
\* entries whose name is held by more than one archive.
C3_PerArchive ==
  pc = "done" =>
    \A z \in Zips :
      /\ file_bytes[z] = SumOver(map[z], [n \in map[z] |-> size_map[<< z, n >>]])
      /\ file_dup_bytes[z] =
           SumOver(map[z] \cap Duplicated,
                   [n \in map[z] \cap Duplicated |-> size_map[<< z, n >>]])

\* A finished run with an archive that holds a shared and an unshared entry.
C3_Witness ==
  /\ pc = "done"
  /\ \E z \in Zips : 0 < file_dup_bytes[z] /\ file_dup_bytes[z] < file_bytes[z]

----------------------------------------------------------------------------
\* The entry the inner loop is at repeats a name of the archive being indexed.
RepeatsName ==
  /\ pc = "entry"
  /\ Sanitize(entry.name) # None
  /\ Sanitize(entry.name) \in names

\* Nothing of the archive z has reached the name sets or the index.
NotMerged(z) ==
  /\ z \notin DOMAIN map
  /\ \A n \in DOMAIN entry_map :
       \A k \in DOMAIN entry_map[n] : entry_map[n][k][1] # z

----------------------------------------------------------------------------
\* C5: when discovery returns an empty list the run fails with
\* NoArchivesFound, and nothing was opened, indexed, computed or printed.
C5_EmptyInput ==
  (pc # "start" /\ err.kind # "DiscoveryFailed" /\ zip_paths = << >>) =>
    /\ pc = "failed"
    /\ err = [kind |-> "NoArchivesFound"]
    /\ out = << >>
    /\ zi = 0 /\ entry = None /\ names = {}
    /\ map = EmptyFn /\ size_map = EmptyFn /\ entry_map = EmptyFn
    /\ file_bytes = EmptyFn /\ file_dup_bytes = EmptyFn
    /\ total_savable = 0 /\ total_bytes = 0 /\ percent_reduction = 0

\* The run failed on an empty list.
C5_Witness ==
  /\ pc = "failed"
  /\ err.kind = "NoArchivesFound"
  /\ zip_paths = << >>

----------------------------------------------------------------------------
\* C6: an entry name that cannot be sanitized, a repeated entry name or an
\* archive that cannot be opened ends the run in failure; a failed run takes
\* no further step and has printed no statistic; a statistic is printed only
\* when every archive of the list has its name set in map.
C6_NoPartialResults ==
  /\ [][(pc = "entry" /\ (Sanitize(entry.name) = None \/ RepeatsName)) =>
          /\ pc' = "failed"
          /\ err'.kind \in {"InvalidEntryName", "DuplicateEntryInArchive"}]_vars
  /\ [][err # NoErr => UNCHANGED vars]_vars
  /\ [](err # NoErr <=> pc = "failed")
  /\ [](pc = "failed" => ~HasStat /\ entry_map = EmptyFn)
  /\ [](HasStat => Indexed /\ err = NoErr /\ Zips \subseteq DOMAIN map)

\* The run failed on an archive after another one was indexed in full.
C6_Witness ==
  /\ pc = "failed"
  /\ err.kind \in {"InvalidEntryName", "OpenFailed"}
  /\ zi = 2
  /\ 1 \in DOMAIN map /\ map[1] # {}

----------------------------------------------------------------------------
\* C7: after a successful run total_savable <= total_bytes and dup <= total
\* for every archive, every percentage is within 0..100, and a percentage
\* whose denominator is 0 is 0.
C7_Bounds ==
  pc = "done" =>
    /\ total_savable <= total_bytes
    /\ percent_reduction \in 0..100
    /\ total_bytes = 0 => percent_reduction = 0
    /\ out[Len(out) - 1] = [kind |-> "total", savable |-> total_savable,
                            percent |-> percent_reduction]
    /\ Len(FileLines) = Len(zip_paths)
    /\ \A k \in DOMAIN FileLines :
         LET z == FileLines[k].zip IN
           /\ z = zip_paths[k]
           /\ FileLines[k].dup = file_dup_bytes[z]
           /\ file_dup_bytes[z] <= file_bytes[z]
           /\ FileLines[k].percent \in 0..100
           /\ file_bytes[z] = 0 => FileLines[k].percent = 0

\* A finished run with an archive whose entries are all shared, another
\* with an unshared entry, and a saving above 0.
C7_Witness ==
  /\ pc = "done"
  /\ \E k \in DOMAIN FileLines : FileLines[k].percent = 100
  /\ \E k \in DOMAIN FileLines :
       0 < FileLines[k].percent /\ FileLines[k].percent < 100
  /\ 0 < percent_reduction /\ percent_reduction < 100

\* A finished run with an archive without entries: its total is 0 and so is
\* its percentage.
C7_ZeroTotal ==
  /\ pc = "done"
  /\ \E k \in DOMAIN FileLines :
       file_bytes[FileLines[k].zip] = 0 /\ FileLines[k].percent = 0

----------------------------------------------------------------------------
\* A pair line with the two archives in each other's place.
SwapLine(r) == [r EXCEPT !.p1 = r.p2, !.p2 = r.p1]

\* C8: for two archives of the list, the pair computation with the archives
\* in each other's place yields the same count and the same bytes, and these
\* are the count and the bytes of the line printed for the pair.
C8_Symmetry ==
  Indexed =>
    LET lines == PairLines
    IN /\ \A i, j \in DOMAIN zip_paths :
            i < j =>
              LET fwd == PairReport(i, j)
                  bwd == PairReport(j, i)
              IN /\ Len(bwd) = Len(fwd)
                 /\ \A k \in DOMAIN fwd : bwd[k] = SwapLine(fwd[k])
       /\ \A k \in DOMAIN lines :
            /\ lines[k].common =
                 Cardinality(CommonPaths(lines[k].p2, lines[k].p1))
            /\ lines[k].pair_bytes = PairBytes(lines[k].p2, lines[k].p1)

\* A pair line for two archives that hold a shared name in different sizes,
\* the larger one in the first archive.
C8_Witness ==
  \E k \in DOMAIN PairLines :
    \E n \in CommonPaths(PairLines[k].p1, PairLines[k].p2) :
      size_map[<< PairLines[k].p1, n >>] > size_map[<< PairLines[k].p2, n >>]

----------------------------------------------------------------------------
\* C9: after a successful run the per-archive dup, total_savable and
\* total_bytes are those every other order of the occurrence lists yields,
\* and the totals and pair lines are those the name sets and sizes fix.
C9_Determinism ==
  pc = "done" =>
    /\ \A em \in EntryMaps(size_map) :
         /\ Savable(em) = total_savable
         /\ TotalBytes(em) = total_bytes
         /\ \A z \in Zips : FileDup(z, em) = file_dup_bytes[z]
    /\ \A z \in Zips : file_bytes[z] = FileTotal(z)
    /\ PairLines = PairRows(1)

\* A finished run whose occurrence lists could have been built in another
\* order, with sizes that differ inside a list.
C9_Witness ==
  /\ pc = "done"
  /\ \E em \in EntryMaps(size_map) : em # entry_map
  /\ \E n \in DOMAIN entry_map :
       Len(entry_map[n]) > 1 /\ entry_map[n][1][2] > entry_map[n][2][2]

----------------------------------------------------------------------------
\* C10: once entry_map is built, the list of every name holds exactly one
\* occurrence for each archive whose name set holds the name, with the size
\* read for it, and none for any other archive; and every name of a name set
\* has its size record, so no lookup falls back on 0.
C10_WellFormed ==
  /\ Built =>
       /\ DOMAIN entry_map = AllNames
       /\ \A n \in DOMAIN entry_map :
            /\ Len(entry_map[n]) = Cardinality(Holders(n))
            /\ \A z \in Holders(n) :
                 \E k \in DOMAIN entry_map[n] :
                   entry_map[n][k] = << z, size_map[<< z, n >>] >>
            /\ \A k \in DOMAIN entry_map[n] : entry_map[n][k][1] \in Holders(n)
  /\ Indexed =>
       /\ DOMAIN map = Zips
       /\ \A k \in DOMAIN size_map : k[1] \in Zips /\ k[2] \in map[k[1]]
       /\ \A z \in Zips : \A n \in map[z] : << z, n >> \in DOMAIN size_map

\* The index is built, a name is held by two archives and another name by
\* the second archive only.
C10_Witness ==
  /\ Built
  /\ \E n, m \in DOMAIN entry_map :
       /\ Len(entry_map[n]) = 2
       /\ Holders(m) = {2}
       /\ entry_map[m] = << << 2, size_map[<< 2, m >>] >> >>

====
